---- MODULE Spec2Model ----
(***************************************************************************)
(* The three stages of the web-scraper pipeline, which communicate only   *)
(* through directories:                                                    *)
(*   fanout-urls/app/main.py     the partitioner (URL list -> chunk files) *)
(*   scraper-engine/app/main.py  the extractor (chunk -> chunk result)     *)
(*   data-assembler/app/main.py  the assembler (results -> cheapest item)  *)
(*                                                                         *)
(* Conventions.  A Python str the code inspects (a URL, a file name, a     *)
(* price display) is the tuple of its characters.  A value that may be     *)
(* None (or a key that may be absent, as read by dict.get) is <<>> for     *)
(* None and <<v>> for the value v.  A price is an integer number of cents. *)
(***************************************************************************)
EXTENDS Integers, Sequences, FiniteSets, TLC

VARIABLES
    \* ---- partitioner (fanout-urls) ----
    params,            \* PARTITIONER_PARAMS: [urls, chunk_size], each optional
    source_dir,        \* SOURCE_DIR: the contents of its files, in listing order
    chunks_dir,        \* CHUNKS_DIR: file name -> [kind, ok, urls]
    part_pc,           \* "start" | "chunking" | "done" | "failed"
    valid_urls,        \* main.py:125 valid_urls
    chunk_size,        \* main.py:139 chunk_size
    part_i,            \* main.py:142 loop variable i
    written,           \* history: one record per save_chunk call that wrote a file
    runs,              \* number of partitioner invocations started so far
    \* ---- extractor (scraper-engine) ----
    task_results_dir,  \* TASK_RESULTS_DIR: file name -> result document
    ext_pc,            \* "idle" | "start" | "next" | "scraping" | "done" | "crashed"
    chunk_files,       \* main.py:178 chunk_files still to be processed
    chunk_file,        \* main.py:186 chunk_file
    ext_urls,          \* main.py:191 urls
    ext_u,             \* number of URLs of the chunk processed so far
    scraped_items,     \* main.py:195 scraped_items
    ext_log,           \* history: the scrape calls made for the current chunk
    ext_done,          \* history: one record per result document written
    \* ---- assembler (data-assembler) ----
    output_dir,        \* OUTPUT_DIR: file name -> final result document
    asm_pc,            \* "idle" | "start" | "done" | "crashed" | "aborted"
    all_items,         \* main.py:86 all_items
    asm_prices,        \* history: the price find_cheapest_item resolved per item
    \* ---- the directories the platform hands to the stages ----
    access,            \* per directory: "ok" | "readonly" | "missing"
    \* ---- partitioner invocations running at the same time ----
    writers            \* per invocation: [pc, urls, chunk_size, i, index, seen, serial]

pvars == <<params, source_dir, chunks_dir, part_pc, valid_urls, chunk_size,
           part_i, written, runs>>

evars == <<task_results_dir, ext_pc, chunk_files, chunk_file, ext_urls, ext_u,
           scraped_items, ext_log, ext_done>>

avars == <<output_dir, asm_pc, all_items, asm_prices>>

dvars == <<access, writers>>

vars == <<pvars, evars, avars, dvars>>

----------------------------------------------------------------------------
(* Bounds of the model *)

MaxUrls == 3          \* longest configured URL list
MaxChunkSize == 3     \* largest configured chunk_size
MaxRuns == 2          \* partitioner invocations on one chunk directory

----------------------------------------------------------------------------
(* Strings *)

None == <<>>
Some(v) == <<v>>

\* the characters str.strip() and the regex class \s remove
Whitespace == {" ", "\t", "\n", "\r", "\f"}

Digits == <<"0", "1", "2", "3", "4", "5", "6", "7", "8", "9">>

IsDigit(c) == \E d \in 1..10 : Digits[d] = c

DigitVal(c) == (CHOOSE d \in 1..10 : Digits[d] = c) - 1

\* int(s) for a non-empty string of decimal digits
RECURSIVE StrToInt(_)
StrToInt(s) ==
    IF Len(s) = 0 THEN 0
    ELSE 10 * StrToInt(SubSeq(s, 1, Len(s) - 1)) + DigitVal(s[Len(s)])

\* str(n) / "{}".format(n) for n >= 0
RECURSIVE IntToStr(_)
IntToStr(n) ==
    IF n < 10 THEN <<Digits[n + 1]>>
    ELSE IntToStr(n \div 10) \o <<Digits[(n % 10) + 1]>>

\* sub in s
Contains(s, sub) ==
    \E i \in 0..(Len(s) - Len(sub)) : SubSeq(s, i + 1, i + Len(sub)) = sub

StartsWith(s, pre) == Len(s) >= Len(pre) /\ SubSeq(s, 1, Len(pre)) = pre

EndsWith(s, suf) ==
    Len(s) >= Len(suf) /\ SubSeq(s, Len(s) - Len(suf) + 1, Len(s)) = suf

\* s.strip()
RECURSIVE Strip(_)
Strip(s) ==
    IF Len(s) = 0 THEN s
    ELSE IF s[1] \in Whitespace THEN Strip(Tail(s))
    ELSE IF s[Len(s)] \in Whitespace THEN Strip(SubSeq(s, 1, Len(s) - 1))
    ELSE s

\* number of leading decimal digits of s, as \d+ consumes them
RECURSIVE LeadingDigits(_)
LeadingDigits(s) ==
    IF Len(s) > 0 /\ IsDigit(s[1]) THEN 1 + LeadingDigits(Tail(s)) ELSE 0

RECURSIVE Flatten(_)
Flatten(ss) == IF Len(ss) = 0 THEN <<>> ELSE Head(ss) \o Flatten(Tail(ss))

SeqsUpTo(S, n) == UNION {[1..k -> S] : k \in 0..n}

Max(S) == CHOOSE m \in S : \A x \in S : x <= m

----------------------------------------------------------------------------
(* URLs *)

S_https == <<"h","t","t","p","s",":","/","/">>
S_www == <<"w","w","w",".">>
S_amazon == <<"a","m","a","z","o","n",".","c","o","m">>
S_amzn == <<"a","m","z","n",".","t","o">>
S_search == <<"/","s","?","k","=">>
S_ref == <<"&","r","e","f","=","n","b","_","s","b","_","n","o","s","s">>

\* "https://www.amazon.com/s?k=echo+dot"
UrlEcho == S_https \o S_www \o S_amazon \o S_search
           \o <<"e","c","h","o","+","d","o","t">>
\* "https://not-amazon.example/x"
UrlNotAmazon == S_https
           \o <<"n","o","t","-","a","m","a","z","o","n",".","e","x","a","m","p","l","e">>
           \o <<"/","x">>
\* "https://amzn.to/3abc"
UrlShort == S_https \o S_amzn \o <<"/","3","a","b","c">>
\* " https://www.amazon.com/s?k=kindle\n"
UrlPadded == <<" ">> \o S_https \o S_www \o S_amazon \o S_search
           \o <<"k","i","n","d","l","e">> \o <<"\n">>

UrlPool == {UrlEcho, UrlNotAmazon, UrlShort, UrlPadded}

\* main.py:82-86
HardcodedUrls ==
    << S_https \o S_www \o S_amazon \o S_search
          \o <<"e","c","h","o","+","d","o","t">> \o S_ref,
       S_https \o S_www \o S_amazon \o S_search
          \o <<"k","i","n","d","l","e","+","p","a","p","e","r","w","h","i","t","e">> \o S_ref,
       S_https \o S_www \o S_amazon \o S_search
          \o <<"f","i","r","e","+","t","v","+","s","t","i","c","k">> \o S_ref >>

----------------------------------------------------------------------------
(* ChunkStore: file names of the chunk directory *)

S_data == <<"d","a","t","a","_">>
S_bin == <<".","b","i","n">>

\* chunk_file_naming.format(chunk_index=n)
ChunkFileName(n) == S_data \o IntToStr(n) \o S_bin

\* chunk_pattern.match(f) with chunk_pattern = data_(\d+)\.bin : the pattern is
\* anchored at the start of the name only; the result is None or group(1)
ChunkPatternMatch(f) ==
    IF StartsWith(f, S_data)
    THEN LET rest == SubSeq(f, Len(S_data) + 1, Len(f))
             n == LeadingDigits(rest)
         IN  IF n >= 1 /\ StartsWith(SubSeq(rest, n + 1, Len(rest)), S_bin)
             THEN Some(SubSeq(rest, 1, n))
             ELSE None
    ELSE None

IsFile(dir, f) == f \in DOMAIN dir /\ dir[f].kind = "file"

\* main.py:56-64 chunk_indices (as a set: only its maximum is used)
ChunkIndices(dir) ==
    {StrToInt(ChunkPatternMatch(f)[1]) :
        f \in {g \in DOMAIN dir : IsFile(dir, g) /\ ChunkPatternMatch(g) # None}}

\* mutant of next_chunk_index: the number of chunk files instead of max + 1
NextChunkIndex_count(dir) == Cardinality(ChunkIndices(dir))

NextChunkIndex_last(dir) ==
    IF ChunkIndices(dir) # {} THEN Max(ChunkIndices(dir)) ELSE 0

\* main.py:66 next_chunk_index
NextChunkIndex(dir) ==
    IF ChunkIndices(dir) # {} THEN Max(ChunkIndices(dir)) + 1 ELSE 0

\* the file a chunk write leaves
ChunkFile(urls) == [kind |-> "file", ok |-> TRUE, urls |-> urls]

\* a file whose bytes are not the JSON array of a chunk
OtherFile == [kind |-> "file", ok |-> FALSE, urls |-> <<>>]

SubDir == [kind |-> "dir", ok |-> FALSE, urls |-> <<>>]

PutFile(dir, f, file) ==
    [g \in DOMAIN dir \cup {f} |-> IF g = f THEN file ELSE dir[g]]

----------------------------------------------------------------------------
(* Partitioner: fanout-urls/app/main.py *)

\* main.py:124-133: the allow-list validation loop
RECURSIVE ValidUrls(_)
ValidUrls(urls) ==
    IF Len(urls) = 0 THEN <<>>
    ELSE LET url == Strip(Head(urls))
         IN  IF Len(url) > 0 /\ (Contains(url, S_amazon) \/ Contains(url, S_amzn))
             THEN <<url>> \o ValidUrls(Tail(urls))
             ELSE ValidUrls(Tail(urls))

\* main.py:95: all(isinstance(url, str) and 'amazon.com' in url for url in param_urls)
LooksValid(param_urls) ==
    \A k \in 1..Len(param_urls) : Contains(param_urls[k], S_amazon)

\* main.py:39-50 read_source_files: the text of every file of SOURCE_DIR
read_source_files == [k \in 1..Len(source_dir) |-> source_dir[k]]

\* main.py:82-119: the URLs the run works on.  The source files are read and
\* logged (main.py:103-119) and contribute nothing to all_urls.
AllUrls(p) ==
    IF p.urls # None /\ Len(p.urls[1]) > 0
    THEN IF LooksValid(p.urls[1]) THEN p.urls[1] ELSE HardcodedUrls
    ELSE LET source_files == read_source_files
         IN  HardcodedUrls

\* main.py:139: params.get("chunk_size", 1)
ChunkSize(p) == IF p.chunk_size # None THEN p.chunk_size[1] ELSE 1

\* valid_urls[i:i + chunk_size]
Slice(s, i, k) ==
    SubSeq(s, i + 1, IF i + k <= Len(s) THEN i + k ELSE Len(s))

\* main.py:13-25: the directory checks at the top of the module
PartChecks == access.source # "missing" /\ access.chunks = "ok"

\* main.py:16-25: one of the checks raises ValueError
PartBootFail ==
    /\ part_pc = "start"
    /\ ~PartChecks
    /\ part_pc' = "failed"
    /\ UNCHANGED <<params, source_dir, chunks_dir, valid_urls, chunk_size,
                   part_i, written, runs>>
    /\ UNCHANGED <<evars, avars, dvars>>

\* main.py:76-142: the run up to the head of the chunking loop;
\* range(0, n, 0) raises ValueError
PartStart ==
    /\ part_pc = "start"
    /\ PartChecks
    /\ valid_urls' = ValidUrls(AllUrls(params))
    /\ chunk_size' = ChunkSize(params)
    /\ part_i' = 0
    /\ part_pc' = IF ChunkSize(params) = 0 THEN "failed" ELSE "chunking"
    /\ UNCHANGED <<params, source_dir, chunks_dir, written, runs>>
    /\ UNCHANGED <<evars, avars, dvars>>

\* main.py:142-152 with save_chunk (main.py:52-72): one iteration of the loop
PartSaveChunk ==
    /\ part_pc = "chunking"
    /\ part_i < Len(valid_urls)
    /\ LET chunk_urls == Slice(valid_urls, part_i, chunk_size)
           next_chunk_index == NextChunkIndex(chunks_dir)
           output_path == ChunkFileName(next_chunk_index)
       IN  /\ ~(output_path \in DOMAIN chunks_dir /\ chunks_dir[output_path].kind = "dir")
           /\ chunks_dir' = PutFile(chunks_dir, output_path, ChunkFile(chunk_urls))
           /\ written' = Append(written,
                  [run |-> runs, index |-> next_chunk_index, name |-> output_path,
                   urls |-> chunk_urls,
                   before |-> {f \in DOMAIN chunks_dir : IsFile(chunks_dir, f)}])
    /\ part_i' = part_i + chunk_size
    /\ UNCHANGED <<params, source_dir, part_pc, valid_urls, chunk_size, runs>>
    /\ UNCHANGED <<evars, avars, dvars>>

\* main.py:69-74: open() or write() raises (the path is a directory, the disk is
\* full): RuntimeError ends the run.  A failing write() has already created
\* the file.
PartWriteFail ==
    /\ part_pc = "chunking"
    /\ part_i < Len(valid_urls)
    /\ LET output_path == ChunkFileName(NextChunkIndex(chunks_dir))
       IN  \/ /\ output_path \in DOMAIN chunks_dir
              /\ chunks_dir[output_path].kind = "dir"
              /\ UNCHANGED chunks_dir
           \/ /\ output_path \notin DOMAIN chunks_dir
              /\ \E created \in BOOLEAN :
                    chunks_dir' = IF created
                                  THEN PutFile(chunks_dir, output_path, OtherFile)
                                  ELSE chunks_dir
    /\ part_pc' = "failed"
    /\ UNCHANGED <<params, source_dir, valid_urls, chunk_size, part_i, written, runs>>
    /\ UNCHANGED <<evars, avars, dvars>>

\* main.py:154-155: the loop is exhausted
PartFinish ==
    /\ part_pc = "chunking"
    /\ part_i >= Len(valid_urls)
    /\ part_pc' = "done"
    /\ UNCHANGED <<params, source_dir, chunks_dir, valid_urls, chunk_size,
                   part_i, written, runs>>
    /\ UNCHANGED <<evars, avars, dvars>>

UrlLists == SeqsUpTo(UrlPool, MaxUrls)

ParamsPool ==
    [urls : {None} \cup {Some(l) : l \in UrlLists},
     chunk_size : {None} \cup {Some(k) : k \in 0..MaxChunkSize}]

\* SOURCE_DIR as the test harness fills it (test_final.py:65-70), and variants
SourcePool ==
    { <<>>,
      <<[kind |-> "array", urls |-> <<UrlEcho, UrlShort>>]>>,
      <<[kind |-> "object", urls |-> <<UrlShort>>],
        [kind |-> "text", urls |-> <<UrlEcho>>]>> }

EmptyDir == [f \in {} |-> OtherFile]

\* no partitioner invocations running side by side
NoWriters == <<>>

\* every directory exists and is writable
AllOk == [source |-> "ok", chunks |-> "ok", task_results |-> "ok", output |-> "ok"]

\* the assembler has not been started
AsmIdle ==
    /\ output_dir = EmptyDir
    /\ asm_pc = "idle"
    /\ all_items = <<>>
    /\ asm_prices = <<>>

\* the extractor has not been started
ExtIdle ==
    /\ AsmIdle
    /\ task_results_dir = EmptyDir
    /\ ext_pc = "idle"
    /\ chunk_files = {}
    /\ chunk_file = <<>>
    /\ ext_urls = <<>>
    /\ ext_u = 0
    /\ scraped_items = <<>>
    /\ ext_log = <<>>
    /\ ext_done = <<>>

PartInitRest ==
    /\ ExtIdle
    /\ part_pc = "start"
    /\ valid_urls = <<>>
    /\ chunk_size = 1
    /\ part_i = 0
    /\ written = <<>>
    /\ runs = 1

\* one partitioner invocation on an empty chunk directory
Init ==
    /\ params \in ParamsPool
    /\ source_dir \in SourcePool
    /\ chunks_dir = EmptyDir
    /\ PartInitRest
    /\ access = AllOk
    /\ writers = NoWriters

Next == PartStart \/ PartSaveChunk \/ PartWriteFail \/ PartFinish

Spec == Init /\ [][Next]_vars

----------------------------------------------------------------------------
(* Repeated partitioner invocations on a chunk directory that already holds *)
(* entries: the single-writer use of ChunkStore                             *)

\* entries a chunk directory may hold before a run
DirEntryPool ==
    { <<ChunkFileName(0), ChunkFile(<<UrlEcho>>)>>,
      <<ChunkFileName(2), ChunkFile(<<UrlEcho, UrlShort>>)>>,
      <<ChunkFileName(10), ChunkFile(<<UrlShort>>)>>,
      \* "data_7.bin.bak"
      <<ChunkFileName(7) \o <<".","b","a","k">>, OtherFile>>,
      \* "notes.txt"
      <<<<"n","o","t","e","s",".","t","x","t">>, OtherFile>>,
      \* a subdirectory named "data_6.bin"
      <<ChunkFileName(6), SubDir>> }

DirOf(entries) ==
    [f \in {e[1] : e \in entries} |-> (CHOOSE e \in entries : e[1] = f)[2]]

InitialDirs == {DirOf(es) : es \in SUBSET DirEntryPool}

\* the configurations of the repeated runs
StoreParams ==
    {p \in ParamsPool : p.urls = None /\ p.chunk_size \in {None, Some(2)}}

\* a later invocation of the partitioner on the same chunk directory, started
\* once the previous process has exited
PartRestart ==
    /\ part_pc \in {"done", "failed"}
    /\ runs < MaxRuns
    /\ runs' = runs + 1
    /\ params' \in StoreParams
    /\ part_pc' = "start"
    /\ valid_urls' = <<>>
    /\ chunk_size' = 1
    /\ part_i' = 0
    /\ UNCHANGED <<source_dir, chunks_dir, written>>
    /\ UNCHANGED <<evars, avars, dvars>>

StoreInit ==
    /\ params \in StoreParams
    /\ source_dir = <<>>
    /\ chunks_dir \in InitialDirs
    /\ PartInitRest
    /\ access = AllOk
    /\ writers = NoWriters

StoreNext == Next \/ PartRestart

StoreSpec == StoreInit /\ [][StoreNext]_vars

----------------------------------------------------------------------------
(* Extractor: scraper-engine/app/main.py, scrape_amazon_search *)

\* scraper-engine main.py:107 (data-assembler main.py:61): 999999, in cents
Sentinel == 999999 * 100

S_Unknown == <<"U","n","k","n","o","w","n">>
S_Error == <<"E","r","r","o","r">>

Min(S) == CHOOSE m \in S : \A x \in S : m <= x

\* first index >= i of t that holds no whitespace (Len(t) + 1 if none)
RECURSIVE WsEnd(_, _)
WsEnd(t, i) == IF i <= Len(t) /\ t[i] \in Whitespace THEN WsEnd(t, i + 1) ELSE i

\* first index >= i of t that holds no digit
RECURSIVE DigEnd(_, _)
DigEnd(t, i) == IF i <= Len(t) /\ IsDigit(t[i]) THEN DigEnd(t, i + 1) ELSE i

\* last index of the run of non-comma characters starting at j (j - 1 if none)
RECURSIVE RunEnd(_, _)
RunEnd(t, j) == IF j <= Len(t) /\ t[j] # "," THEN RunEnd(t, j + 1) ELSE j - 1

\* (?:, [^,]+)* after a match ending at e: the end of the extended match
RECURSIVE MoreParts(_, _)
MoreParts(t, e) ==
    IF e + 3 <= Len(t) /\ t[e + 1] = "," /\ t[e + 2] = " " /\ t[e + 3] # ","
    THEN MoreParts(t, RunEnd(t, e + 3))
    ELSE e

HasAt(t, i, w) == i + Len(w) - 1 <= Len(t) /\ SubSeq(t, i, i + Len(w) - 1) = w

\* main.py:89-96: re.search(r'(<brand> [^,]+(?:, [^,]+)*)', all_text), None or group(1)
TitleSearch(t, brand) ==
    LET starts == {i \in 1..Len(t) :
                      /\ HasAt(t, i, brand \o <<" ">>)
                      /\ i + Len(brand) + 1 <= Len(t)
                      /\ t[i + Len(brand) + 1] # ","}
    IN  IF starts = {} THEN None
        ELSE LET i == Min(starts)
             IN  Some(SubSeq(t, i, MoreParts(t, RunEnd(t, i + Len(brand) + 1))))

\* the end (last index) of a match of \s+\d+\.\d+\s+out\s+of\s+\d+.* starting at
\* i, or 0 when there is none
RatingMatchEnd(t, i) ==
    LET a == WsEnd(t, i)
        b == DigEnd(t, a)
        d == DigEnd(t, b + 1)
        e == WsEnd(t, d)
        g == WsEnd(t, e + 3)
        k == WsEnd(t, g + 2)
        m == DigEnd(t, k)
        lineEnds == {n \in m..Len(t) : t[n] = "\n"}
    IN  IF /\ a > i /\ b > a
           /\ HasAt(t, b, <<".">>) /\ d > b + 1
           /\ e > d /\ HasAt(t, e, <<"o","u","t">>)
           /\ g > e + 3 /\ HasAt(t, g, <<"o","f">>)
           /\ k > g + 2 /\ m > k
        THEN IF lineEnds = {} THEN Len(t) ELSE Min(lineEnds) - 1
        ELSE 0

\* main.py:100: re.sub(r'\s+\d+\.\d+\s+out\s+of\s+\d+.*', '', title)
RECURSIVE RemoveRatings(_)
RemoveRatings(t) ==
    LET starts == {i \in 1..Len(t) : RatingMatchEnd(t, i) > 0}
    IN  IF starts = {} THEN t
        ELSE LET i == Min(starts)
             IN  SubSeq(t, 1, i - 1)
                    \o RemoveRatings(SubSeq(t, RatingMatchEnd(t, i) + 1, Len(t)))

\* main.py:89-94 patterns, in order
TitleBrands ==
    << <<"E","c","h","o">>, <<"K","i","n","d","l","e">>,
       <<"F","i","r","e">>, <<"A","m","a","z","o","n">> >>

\* main.py:84-103: the title of a product container
ExtractTitle(product) ==
    IF product.text_raises \/ product.text = None THEN S_Unknown
    ELSE LET all_text == product.text[1]
             hits == {k \in 1..Len(TitleBrands) :
                         TitleSearch(all_text, TitleBrands[k]) # None}
         IN  IF Len(all_text) = 0 \/ hits = {} THEN S_Unknown
             ELSE RemoveRatings(Strip(TitleSearch(all_text, TitleBrands[Min(hits)])[1]))

\* re.search(r'\$(\d+(?:\.\d{2})?)', s) and float(group(1)): None or the cents
PriceSearch(s) ==
    LET starts == {i \in 1..Len(s) :
                      s[i] = "$" /\ i + 1 <= Len(s) /\ IsDigit(s[i + 1])}
    IN  IF starts = {} THEN None
        ELSE LET i == Min(starts)
                 e == DigEnd(s, i + 1)
                 whole == StrToInt(SubSeq(s, i + 1, e - 1))
             IN  IF /\ e + 2 <= Len(s) /\ s[e] = "."
                    /\ IsDigit(s[e + 1]) /\ IsDigit(s[e + 2])
                 THEN Some(100 * whole + StrToInt(SubSeq(s, e + 1, e + 2)))
                 ELSE Some(100 * whole)

\* main.py:105-119: price and price_numeric of a product container
ExtractPrice(product) ==
    IF product.price_raises \/ product.price_text = None
          \/ Len(product.price_text[1]) = 0
    THEN [price |-> S_Unknown, price_numeric |-> Sentinel]
    ELSE LET price == Strip(product.price_text[1])
             price_match == PriceSearch(price)
         IN  [price |-> price,
              price_numeric |-> IF price_match # None THEN price_match[1]
                                ELSE Sentinel]

\* main.py:168-174: the item returned for a URL whose processing raised.
\* (The purchase count "buyers", main.py:121-150, takes part in no property
\* and is left out of the items.)
ErrorItem(url, description) ==
    [url |-> url, title |-> Some(S_Error), price |-> Some(S_Error),
     price_numeric |-> None, price_value |-> None, error |-> Some(description)]

\* main.py:153-160
ProductItem(url, title, price, price_numeric) ==
    [url |-> url, title |-> Some(title), price |-> Some(price),
     price_numeric |-> Some(price_numeric), price_value |-> None, error |-> None]

\* main.py:80-160: the loop over the product containers
RECURSIVE ExtractProducts(_, _)
ExtractProducts(url, elements) ==
    IF Len(elements) = 0 THEN <<>>
    ELSE LET title == ExtractTitle(Head(elements))
             p == ExtractPrice(Head(elements))
         IN  (IF title # S_Unknown /\ p.price # S_Unknown
              THEN <<ProductItem(url, title, p.price, p.price_numeric)>>
              ELSE <<>>)
             \o ExtractProducts(url, Tail(elements))

\* mutant of scrape_amazon_search: the exception of the page work is not caught
scrape_amazon_search_uncaught(url, page) ==
    IF page.launch # None \/ page.goto # None \/ page.selector # None
    THEN [raised |-> TRUE, items |-> <<>>]
    ELSE LET product_elements ==
                 IF Len(page.primary) = 0 THEN page.secondary ELSE page.primary
         IN  [raised |-> FALSE,
              items |-> ExtractProducts(url,
                  SubSeq(product_elements, 1, Min({10, Len(product_elements)})))]

\* main.py:55-174 scrape_amazon_search.  page is what the browser does for the
\* URL: launch, goto, selector are None or the description of the exception
\* raised by the browser launch (main.py:57-59, outside the try), by the
\* navigation (main.py:62-63) or by a locator query on the loaded page
\* (main.py:67-81); primary and secondary are the containers the two selectors
\* find.  The result is the returned list, or raised when the call raises.
scrape_amazon_search(url, page) ==
    IF page.launch # None THEN [raised |-> TRUE, items |-> <<>>]
    ELSE IF page.goto # None
    THEN [raised |-> FALSE, items |-> <<ErrorItem(url, page.goto[1])>>]
    ELSE LET product_elements ==
                 IF Len(page.primary) = 0 THEN page.secondary ELSE page.primary
         IN  IF page.selector # None
             THEN [raised |-> FALSE, items |-> <<ErrorItem(url, page.selector[1])>>]
             ELSE IF Len(product_elements) = 0
             THEN [raised |-> FALSE, items |-> <<>>]
             ELSE [raised |-> FALSE,
                   items |-> ExtractProducts(url,
                       SubSeq(product_elements, 1, Min({10, Len(product_elements)})))]

----------------------------------------------------------------------------
(* Extractor: scraper-engine/app/main.py, process_chunks *)

\* s.replace(old, '')
RECURSIVE Remove(_, _)
Remove(s, old) ==
    IF Len(s) < Len(old) THEN s
    ELSE IF StartsWith(s, old) THEN Remove(SubSeq(s, Len(old) + 1, Len(s)), old)
    ELSE <<Head(s)>> \o Remove(Tail(s), old)

\* main.py:208 chunk_number
ChunkNumber_fixed(f) == <<"0">>

ChunkNumber(f) == Remove(Remove(f, S_data), S_bin)

\* main.py:217 result_file
ResultFileName(chunk_number) ==
    <<"c","h","u","n","k","_">> \o chunk_number
        \o <<"_","r","e","s","u","l","t","s",".","j","s","o","n">>

\* Python truth of item.get("error"): neither None nor the empty string
HasError(item) == item.error # None /\ item.error[1] # ""

\* main.py:209-215 result
ChunkResult(f, chunk_urls, items) ==
    [chunk_number |-> ChunkNumber(f),
     urls_processed |-> Len(chunk_urls),
     scraped_items |-> items,
     success_count |-> Len(SelectSeq(items, LAMBDA item : ~HasError(item))),
     error_count |-> Len(SelectSeq(items, LAMBDA item : HasError(item)))]

\* a result document as a file of TASK_RESULTS_DIR
ResultFile(doc) == [kind |-> "file", ok |-> TRUE, doc |-> doc]

\* a file cut short by a failed write
BrokenFile == [kind |-> "file", ok |-> FALSE]

\* product containers a page may hold
Product(text, price_text) ==
    [text |-> text, text_raises |-> FALSE,
     price_text |-> price_text, price_raises |-> FALSE]

\* "Echo Dot, Charcoal 4.7 out of 5 stars" at "$49.99"
ProductEcho ==
    Product(Some(<<"E","c","h","o"," ","D","o","t",","," ","C","h","a","r","c","o","a","l",
                   " ","4",".","7"," ","o","u","t"," ","o","f"," ","5"," ","s","t","a","r","s">>),
            Some(<<"$","4","9",".","9","9">>))
\* "New Kindle" at " $9 "
ProductKindle ==
    Product(Some(<<"N","e","w"," ","K","i","n","d","l","e"," ","1","1">>),
            Some(<<" ","$","9"," ">>))
\* "Fire TV" with a price in another currency, "EUR 12"
ProductNoDollar ==
    Product(Some(<<"F","i","r","e"," ","T","V">>), Some(<<"E","U","R"," ","1","2">>))
\* no brand in the text
ProductNoTitle ==
    Product(Some(<<"U","S","B"," ","c","a","b","l","e">>), Some(<<"$","5",".","0","0">>))
\* no price element
ProductNoPrice == Product(Some(<<"A","m","a","z","o","n"," ","B","a","s","i","c","s">>), None)
\* text_content() raises for the price element
ProductPriceRaises ==
    [text |-> Some(<<"E","c","h","o"," ","P","o","p">>), text_raises |-> FALSE,
     price_text |-> Some(<<"$","1","9",".","9","9">>), price_raises |-> TRUE]

Page(launch, goto, selector, primary, secondary) ==
    [launch |-> launch, goto |-> goto, selector |-> selector,
     primary |-> primary, secondary |-> secondary]

\* what the browser may do for one URL
PagePool ==
    { Page(Some("BrowserType.launch: executable not found"), None, None, <<>>, <<>>),
      Page(None, Some("Page.goto: Timeout 30000ms exceeded."), None, <<>>, <<>>),
      Page(None, Some(""), None, <<>>, <<>>),
      Page(None, None, Some("Locator.count: Target closed"), <<ProductEcho>>, <<>>),
      Page(None, None, None, <<>>, <<>>),
      Page(None, None, None,
           <<ProductEcho, ProductNoDollar, ProductNoTitle, ProductPriceRaises>>, <<>>),
      Page(None, None, None, <<>>, <<ProductNoPrice, ProductKindle>>) }

\* main.py:19-41: the directory checks at the top of the module; whether
\* TASK_RESULTS_DIR is writable is not among them
ExtChecks == access.chunks # "missing" /\ access.task_results # "missing"

\* main.py:28-41: one of the checks raises ValueError
ExtBootFail ==
    /\ ext_pc = "start"
    /\ ~ExtChecks
    /\ ext_pc' = "crashed"
    /\ UNCHANGED <<task_results_dir, chunk_files, chunk_file, ext_urls, ext_u,
                   scraped_items, ext_log, ext_done>>
    /\ UNCHANGED <<pvars, avars, dvars>>

\* main.py:178: the chunk files found, or the early return of main.py:180-182
ExtStart ==
    /\ ext_pc = "start"
    /\ ExtChecks
    /\ chunk_files' = {f \in DOMAIN chunks_dir :
                          StartsWith(f, S_data) /\ EndsWith(f, S_bin)}
    /\ ext_pc' = IF chunk_files' = {} THEN "done" ELSE "next"
    /\ UNCHANGED <<task_results_dir, chunk_file, ext_urls, ext_u, scraped_items,
                   ext_log, ext_done>>
    /\ UNCHANGED <<pvars, avars, dvars>>

Readable(f) == chunks_dir[f].kind = "file" /\ chunks_dir[f].ok

\* main.py:186-195: the next chunk file, in the order os.listdir gave, is read
ExtBeginChunk ==
    /\ ext_pc = "next"
    /\ \E f \in chunk_files :
          /\ Readable(f)
          /\ chunk_file' = f
          /\ chunk_files' = chunk_files \ {f}
          /\ ext_urls' = chunks_dir[f].urls
    /\ ext_u' = 0
    /\ scraped_items' = <<>>
    /\ ext_log' = <<>>
    /\ ext_pc' = "scraping"
    /\ UNCHANGED <<task_results_dir, ext_done>>
    /\ UNCHANGED <<pvars, avars, dvars>>

\* main.py:190-191: open() or json.loads() raises for the next chunk file
ExtReadFail ==
    /\ ext_pc = "next"
    /\ \E f \in chunk_files :
          /\ ~Readable(f)
          /\ chunk_file' = f
          /\ chunk_files' = chunk_files \ {f}
    /\ ext_pc' = "crashed"
    /\ UNCHANGED <<task_results_dir, ext_urls, ext_u, scraped_items, ext_log, ext_done>>
    /\ UNCHANGED <<pvars, avars, dvars>>

\* main.py:196-205: one URL of the chunk
ExtScrape ==
    /\ ext_pc = "scraping"
    /\ ext_u < Len(ext_urls)
    /\ \E page \in PagePool :
          LET url == ext_urls[ext_u + 1]
              r == scrape_amazon_search(url, page)
          IN  /\ ext_log' = Append(ext_log,
                     [url |-> url, page |-> page, raised |-> r.raised,
                      start |-> Len(scraped_items), count |-> Len(r.items)])
              /\ IF r.raised
                 THEN ext_pc' = "crashed" /\ UNCHANGED <<scraped_items, ext_u>>
                 ELSE /\ scraped_items' = scraped_items \o r.items
                      /\ ext_u' = ext_u + 1
                      /\ UNCHANGED ext_pc
    /\ UNCHANGED <<task_results_dir, chunk_files, chunk_file, ext_urls, ext_done>>
    /\ UNCHANGED <<pvars, avars, dvars>>

\* main.py:207-221: the result document of the chunk is written
ExtSaveResult ==
    /\ ext_pc = "scraping"
    /\ ext_u = Len(ext_urls)
    /\ access.task_results = "ok"
    /\ LET result == ChunkResult(chunk_file, ext_urls, scraped_items)
           result_file == ResultFileName(result.chunk_number)
       IN  /\ task_results_dir' = PutFile(task_results_dir, result_file, ResultFile(result))
           /\ ext_done' = Append(ext_done,
                  [chunk_file |-> chunk_file, urls |-> ext_urls, log |-> ext_log,
                   result_file |-> result_file, result |-> result])
    /\ ext_pc' = "next"
    /\ UNCHANGED <<chunk_files, chunk_file, ext_urls, ext_u, scraped_items, ext_log>>
    /\ UNCHANGED <<pvars, avars, dvars>>

\* main.py:218-219: open() or json.dump() raises; a failing dump leaves the
\* file cut short
ExtWriteFail ==
    /\ ext_pc = "scraping"
    /\ ext_u = Len(ext_urls)
    /\ \E opened \in (IF access.task_results = "ok" THEN BOOLEAN ELSE {FALSE}) :
          task_results_dir' =
              IF opened
              THEN PutFile(task_results_dir,
                           ResultFileName(ChunkNumber(chunk_file)), BrokenFile)
              ELSE task_results_dir
    /\ ext_pc' = "crashed"
    /\ UNCHANGED <<chunk_files, chunk_file, ext_urls, ext_u, scraped_items,
                   ext_log, ext_done>>
    /\ UNCHANGED <<pvars, avars, dvars>>

\* main.py:186, 225-226: no chunk file is left
ExtFinish ==
    /\ ext_pc = "next"
    /\ chunk_files = {}
    /\ ext_pc' = "done"
    /\ UNCHANGED <<task_results_dir, chunk_files, chunk_file, ext_urls, ext_u,
                   scraped_items, ext_log, ext_done>>
    /\ UNCHANGED <<pvars, avars, dvars>>

\* entries of the chunk directory an extractor run may find
ExtEntryPool ==
    { <<ChunkFileName(0), ChunkFile(<<UrlEcho>>)>>,
      <<ChunkFileName(5), ChunkFile(<<UrlEcho, UrlShort>>)>>,
      <<ChunkFileName(3), ChunkFile(<<>>)>>,
      <<ChunkFileName(8), OtherFile>>,
      <<ChunkFileName(7) \o <<".","b","a","k">>, OtherFile>> }

ExtDirs == {DirOf(es) : es \in SUBSET ExtEntryPool}

\* the partitioner has exited
PartIdle ==
    /\ params = [urls |-> None, chunk_size |-> None]
    /\ source_dir = <<>>
    /\ part_pc = "done"
    /\ valid_urls = <<>>
    /\ chunk_size = 1
    /\ part_i = 0
    /\ written = <<>>
    /\ runs = 1

\* the extractor is invoked on an empty task-results directory
ExtInitRest ==
    /\ PartIdle
    /\ AsmIdle
    /\ task_results_dir = EmptyDir
    /\ ext_pc = "start"
    /\ chunk_files = {}
    /\ chunk_file = <<>>
    /\ ext_urls = <<>>
    /\ ext_u = 0
    /\ scraped_items = <<>>
    /\ ext_log = <<>>
    /\ ext_done = <<>>

ExtInit ==
    /\ chunks_dir \in ExtDirs
    /\ ExtInitRest
    /\ access = AllOk
    /\ writers = NoWriters

ExtNext ==
    \/ ExtStart \/ ExtBeginChunk \/ ExtReadFail \/ ExtScrape
    \/ ExtSaveResult \/ ExtWriteFail \/ ExtFinish

ExtSpec == ExtInit /\ [][ExtNext]_vars

\* asyncio.run(process_chunks()) runs the one coroutine to its end: a step
\* that can be taken is taken
ExtLiveSpec == ExtSpec /\ WF_vars(ExtNext)

----------------------------------------------------------------------------
(* Assembler: data-assembler/app/main.py *)

\* data-assembler main.py:52 float('inf'): above every price of the model
Inf == 10 * Sentinel

\* Python truth of a number or None, and of a str or None
NumTruthy(v) == v # None /\ v[1] # 0
StrTruthy(v) == v # None /\ Len(v[1]) > 0

\* main.py:58-71: the price find_cheapest_item compares for an item
ResolvePrice(item) ==
    LET price_numeric == IF NumTruthy(item.price_numeric) THEN item.price_numeric[1]
                         ELSE IF NumTruthy(item.price_value) THEN item.price_value[1]
                         ELSE Sentinel
    IN  IF price_numeric = Sentinel /\ StrTruthy(item.price)
        THEN LET price_match == PriceSearch(item.price[1])
             IN  IF price_match # None THEN price_match[1] ELSE price_numeric
        ELSE price_numeric

\* main.py:54-75: the loop of find_cheapest_item from item k on
RECURSIVE CheapestFrom(_, _, _, _)
CheapestFrom(items, k, cheapest, min_price) ==
    IF k > Len(items) THEN [cheapest |-> cheapest, min_price |-> min_price]
    ELSE IF HasError(items[k]) THEN CheapestFrom(items, k + 1, cheapest, min_price)
    ELSE IF ResolvePrice(items[k]) < min_price
    THEN CheapestFrom(items, k + 1, Some(items[k]), ResolvePrice(items[k]))
    ELSE CheapestFrom(items, k + 1, cheapest, min_price)

\* main.py:49-77 find_cheapest_item
find_cheapest_item(items) == CheapestFrom(items, 1, None, Inf)

\* main.py:89-96: the items of one result file; a file that is not JSON is
\* skipped
ItemsOfResultFile(file) ==
    IF ~file.ok THEN <<>>
    ELSE IF "scraped_items" \in DOMAIN file.doc THEN file.doc.scraped_items
    ELSE <<>>

\* a file whose text is JSON but not a JSON object: "[]"
ArrayFile == [kind |-> "file", ok |-> TRUE, array |-> <<>>]

\* a file whose bytes are not text in the encoding open() uses (UTF-8)
UndecodableFile == [kind |-> "file", ok |-> FALSE, text |-> FALSE]

\* main.py:43-44 and 91-93: reading or parsing the file raises something other
\* than the json.JSONDecodeError that main.py:94 catches (UnicodeDecodeError
\* from file.read(), AttributeError from chunk_result.get)
Raises(file) ==
    \/ "text" \in DOMAIN file
    \/ file.ok /\ "doc" \notin DOMAIN file

ResultFiles == {f \in DOMAIN task_results_dir : IsFile(task_results_dir, f)}

S_NoItems == <<"N","o"," ","i","t","e","m","s"," ","f","o","u","n","d">>
S_NA == <<"N","/","A">>

\* main.py:104-114 final_result
FinalResult(items) ==
    LET found == find_cheapest_item(items)
        cheapest == found.cheapest
    IN  [total_items_analyzed |-> Len(items),
         cheapest_item |-> cheapest,
         min_price |-> found.min_price,
         summary |->
            [title |-> IF cheapest # None THEN cheapest[1].title ELSE Some(S_NoItems),
             price |-> IF cheapest # None THEN cheapest[1].price ELSE Some(S_NA),
             price_value |-> IF cheapest # None THEN found.min_price ELSE 0,
             url |-> IF cheapest # None THEN cheapest[1].url ELSE <<>>]]

\* main.py:117 "cheapest_item.json"
S_OutputName ==
    <<"c","h","e","a","p","e","s","t","_","i","t","e","m",".","j","s","o","n">>

\* the orders in which os.listdir may give the names S
Listings(S) ==
    {l \in [1..Cardinality(S) -> S] :
        \A i, j \in 1..Cardinality(S) : i # j => l[i] # l[j]}

\* main.py:13-25: the directory checks at the top of the module
AsmChecks == access.task_results # "missing" /\ access.output = "ok"

\* main.py:16-25: one of the checks raises ValueError
AsmBootFail ==
    /\ asm_pc = "start"
    /\ ~AsmChecks
    /\ asm_pc' = "crashed"
    /\ UNCHANGED <<output_dir, all_items, asm_prices>>
    /\ UNCHANGED <<pvars, evars, dvars>>

\* main.py:79-125: the assembler run
AsmRun ==
    /\ asm_pc = "start"
    /\ AsmChecks
    /\ \A f \in ResultFiles : ~Raises(task_results_dir[f])
    /\ \E listing \in Listings({f \in DOMAIN task_results_dir :
                                   IsFile(task_results_dir, f)}) :
          LET result_file_contents ==
                  [k \in 1..Len(listing) |-> task_results_dir[listing[k]]]
              items == Flatten([k \in 1..Len(listing) |->
                                   ItemsOfResultFile(result_file_contents[k])])
          IN  /\ all_items' = items
              /\ asm_prices' = [k \in 1..Len(items) |->
                                   IF HasError(items[k]) THEN None
                                   ELSE Some(ResolvePrice(items[k]))]
              /\ output_dir' = PutFile(output_dir, S_OutputName,
                                       ResultFile(FinalResult(items)))
    /\ asm_pc' = "done"
    /\ UNCHANGED <<pvars, evars, dvars>>

\* main.py:83-93: a result file raises an exception nothing catches
AsmAbort ==
    /\ asm_pc = "start"
    /\ AsmChecks
    /\ \E f \in ResultFiles : Raises(task_results_dir[f])
    /\ asm_pc' = "aborted"
    /\ UNCHANGED <<output_dir, all_items, asm_prices>>
    /\ UNCHANGED <<pvars, evars, dvars>>

\* main.py:117-119: open() or json.dump() raises
AsmWriteFail ==
    /\ asm_pc = "start"
    /\ AsmChecks
    /\ \A f \in ResultFiles : ~Raises(task_results_dir[f])
    /\ \E opened \in BOOLEAN :
          output_dir' = IF opened THEN PutFile(output_dir, S_OutputName, BrokenFile)
                        ELSE output_dir
    /\ asm_pc' = "crashed"
    /\ UNCHANGED <<all_items, asm_prices>>
    /\ UNCHANGED <<pvars, evars, dvars>>

\* items a result document may hold
Item(price, price_numeric, price_value, error) ==
    [url |-> UrlShort, title |-> Some(<<"E","c","h","o">>), price |-> price,
     price_numeric |-> price_numeric, price_value |-> price_value, error |-> error]

ItemPool ==
    { \* products as the extractor writes them: "$19.99", "$9.99"
      Item(Some(<<"$","1","9",".","9","9">>), Some(1999), None, None),
      Item(Some(<<"$","9",".","9","9">>), Some(999), None, None),
      \* a product whose price text held no dollar amount: "EUR 12"
      Item(Some(<<"E","U","R"," ","1","2">>), Some(Sentinel), None, None),
      \* error items, with the messages "timeout" and ""
      ErrorItem(UrlShort, "timeout"),
      ErrorItem(UrlShort, ""),
      \* only a display string: "$12.50"
      Item(Some(<<"$","1","2",".","5","0">>), None, None, None),
      \* only the alternate numeric field
      Item(None, None, Some(700), None),
      \* a free item with an alternate numeric field: "Free"
      Item(Some(<<"F","r","e","e">>), Some(0), Some(500), None),
      \* the sentinel with an alternate numeric field: "Unknown"
      Item(Some(S_Unknown), Some(Sentinel), Some(700), None) }

MaxItems == 2         \* most items in the task-results directory

ResultDoc(items) ==
    [chunk_number |-> <<"0">>, urls_processed |-> Len(items), scraped_items |-> items,
     success_count |-> Len(SelectSeq(items, LAMBDA item : ~HasError(item))),
     error_count |-> Len(SelectSeq(items, LAMBDA item : HasError(item)))]

\* files next to the result documents: none, a file cut short, "[]", bytes
\* that are not text
OtherResultFiles == {<<>>, <<BrokenFile>>, <<ArrayFile>>, <<UndecodableFile>>}

\* the items s in one result file (j = 0) or split after item j into two,
\* next to a further file
ResultsDirOf(s, j, further) ==
    LET first == {<<ResultFileName(<<"0">>),
                    ResultFile(ResultDoc(IF j = 0 THEN s ELSE SubSeq(s, 1, j)))>>}
        second == IF j = 0 THEN {}
                  ELSE {<<ResultFileName(<<"1">>),
                          ResultFile(ResultDoc(SubSeq(s, j + 1, Len(s))))>>}
        other == IF further # None THEN {<<ResultFileName(<<"9">>), further[1]>>} ELSE {}
    IN  DirOf(first \cup second \cup other)

\* two result documents, items priced 19.99 and 9.99 in one and an errored
\* item in the other, next to a further file
ScenarioDirs ==
    {ResultsDirOf(<<Item(Some(<<"$","1","9",".","9","9">>), Some(1999), None, None),
                    Item(Some(<<"$","9",".","9","9">>), Some(999), None, None),
                    ErrorItem(UrlShort, "timeout")>>, 2, further) :
        further \in OtherResultFiles}

\* the directories of at most n items the assembler may find
ResultsDirs(n) ==
    {EmptyDir} \cup {DirOf({<<ResultFileName(<<"9">>), further[1]>>}) :
                        further \in OtherResultFiles \ {None}}
        \cup ScenarioDirs
        \cup UNION {{ResultsDirOf(s, j, further) :
                        j \in 0..Len(s), further \in OtherResultFiles} :
                       s \in SeqsUpTo(ItemPool, n)}

\* the extractor has exited
ExtExited ==
    /\ ext_pc = "done"
    /\ chunk_files = {}
    /\ chunk_file = <<>>
    /\ ext_urls = <<>>
    /\ ext_u = 0
    /\ scraped_items = <<>>
    /\ ext_log = <<>>
    /\ ext_done = <<>>

\* the assembler is invoked on an empty output directory
AsmInitRest ==
    /\ PartIdle
    /\ chunks_dir = EmptyDir
    /\ ExtExited
    /\ output_dir = EmptyDir
    /\ asm_pc = "start"
    /\ all_items = <<>>
    /\ asm_prices = <<>>

AsmInit ==
    /\ task_results_dir \in ResultsDirs(MaxItems)
    /\ AsmInitRest
    /\ access = AllOk
    /\ writers = NoWriters

AsmNext == AsmRun \/ AsmAbort \/ AsmWriteFail

AsmSpec == AsmInit /\ [][AsmNext]_vars

----------------------------------------------------------------------------
(* Claims about the partitioner and ChunkStore *)

CeilDiv(n, k) == (n + k - 1) \div k

\* a name of the form data_<index>.bin, <index> a non-empty decimal numeral
IsChunkName(f) ==
    /\ StartsWith(f, S_data)
    /\ EndsWith(f, S_bin)
    /\ Len(f) > Len(S_data) + Len(S_bin)
    /\ \A k \in (Len(S_data) + 1)..(Len(f) - Len(S_bin)) : IsDigit(f[k])

IndexOfName(f) == StrToInt(SubSeq(f, Len(S_data) + 1, Len(f) - Len(S_bin)))

\* the chunk files of a directory and their indices
ChunkNames(dir) == {f \in DOMAIN dir : IsFile(dir, f) /\ IsChunkName(f)}

RECURSIVE ConcatAscending(_, _)
ConcatAscending(dir, names) ==
    IF names = {} THEN <<>>
    ELSE LET f == CHOOSE g \in names :
                      \A h \in names : IndexOfName(g) <= IndexOfName(h)
         IN  dir[f].urls \o ConcatAscending(dir, names \ {f})

\* the payloads of the chunk files, concatenated in ascending index order
ChunkedUrls(dir) == ConcatAscending(dir, ChunkNames(dir))

UrlListConfigured == params.urls # None /\ Len(params.urls[1]) > 0

\* C1: for every configured URL list and chunk_size k >= 1, a completed run on
\* an empty chunk directory has written exactly ceil(n/k) chunks, n the number
\* of configured URLs passing the allow-list, and the payloads concatenated in
\* ascending index order are the filtered configured list.
C1_ChunksAreFilteredInput ==
    (part_pc = "done" /\ UrlListConfigured /\ ChunkSize(params) >= 1) =>
        LET filtered == ValidUrls(params.urls[1])
        IN  /\ Cardinality(ChunkNames(chunks_dir))
                  = CeilDiv(Len(filtered), ChunkSize(params))
            /\ ChunkedUrls(chunks_dir) = filtered

PassesAllowList(url) ==
    Len(Strip(url)) > 0 /\ (Contains(url, S_amazon) \/ Contains(url, S_amzn))

InSomeChunk(url) ==
    \E f \in ChunkNames(chunks_dir) :
        \E k \in 1..Len(chunks_dir[f].urls) : chunks_dir[f].urls[k] = url

\* C2: a configured URL failing the allow-list is dropped individually and the
\* others survive: a configured URL is in a chunk exactly if it matches one of
\* the two markers, and the configured input [amazon echo-dot URL, not-amazon
\* URL] with chunk_size 1 leaves exactly the chunk data_0.bin = [echo-dot URL].
C2_DroppedIndividually ==
    (part_pc = "done" /\ UrlListConfigured /\ ChunkSize(params) >= 1) =>
        /\ \A k \in 1..Len(params.urls[1]) :
              PassesAllowList(params.urls[1][k])
                  <=> InSomeChunk(Strip(params.urls[1][k]))
        /\ (params.urls[1] = <<UrlEcho, UrlNotAmazon>> /\ ChunkSize(params) = 1) =>
              chunks_dir = PutFile(EmptyDir, ChunkFileName(0), ChunkFile(<<UrlEcho>>))

S_http == <<"h","t","t","p">>

\* the URLs a source file holds: a bare JSON array, the urls field of a JSON
\* object, or the http-prefixed lines of a file that is not JSON
UrlsOfSourceFile(file) ==
    IF file.kind = "text"
    THEN SelectSeq(file.urls, LAMBDA line : StartsWith(line, S_http))
    ELSE file.urls

CollectedFromSource ==
    Flatten([k \in 1..Len(source_dir) |-> UrlsOfSourceFile(source_dir[k])])

\* C3: when the configuration supplies no URL list, the chunked URLs are the
\* URLs collected from the files of the source directory, filtered by the
\* allow-list.
C3_SourceDirectoryFallback ==
    (part_pc = "done" /\ ~UrlListConfigured /\ ChunkSize(params) >= 1) =>
        ChunkedUrls(chunks_dir) = ValidUrls(CollectedFromSource)

\* C4: the index of every chunk write is max(I) + 1, I the indices of the files
\* named data_<index>.bin in the directory at the time of the write, and 0 when
\* there is none; files with other names have no influence.
C4_NextIndexFromChunkFilesOnly ==
    \A k \in 1..Len(written) :
        LET I == {IndexOfName(f) : f \in {g \in written[k].before : IsChunkName(g)}}
        IN  written[k].index = IF I = {} THEN 0 ELSE Max(I) + 1

\* every write made so far created a file that did not exist, under an index no
\* other write used, and the file still holds what was written
C5_WritesCreateDistinctFiles ==
    \A k \in 1..Len(written) :
        /\ written[k].name \notin written[k].before
        /\ written[k].name \in DOMAIN chunks_dir
        /\ chunks_dir[written[k].name] = ChunkFile(written[k].urls)
        /\ \A j \in 1..Len(written) :
              j # k => /\ written[j].index # written[k].index
                       /\ written[j].name # written[k].name

\* no step changes or removes an entry the directory already holds
C5_EntriesImmutable ==
    \A f \in DOMAIN chunks_dir :
        f \in DOMAIN chunks_dir' /\ chunks_dir'[f] = chunks_dir[f]

\* C5: with one partitioner active at a time, over any sequence of runs every
\* chunk write creates a new file under an index used by no other write, and
\* no file of the directory (of this run, an earlier run, or there before) is
\* ever overwritten or modified.
C5_SingleWriterNeverOverwrites ==
    []C5_WritesCreateDistinctFiles /\ [][C5_EntriesImmutable]_vars

\* two runs have written chunks into a directory that already held chunk files
C5_Witness ==
    /\ \E k \in 1..Len(written) : written[k].run = 1
    /\ \E k \in 1..Len(written) :
          written[k].run = 2 /\ \E f \in written[1].before : IsChunkName(f)

----------------------------------------------------------------------------
(* Claims about the extractor *)

\* the processing of the URL failed: the navigation or a locator query raised
PageFails(page) ==
    page.launch = None /\ (page.goto # None \/ page.selector # None)

FailureDescription(page) ==
    IF page.goto # None THEN page.goto[1] ELSE page.selector[1]

\* the scrape calls of a log each contributed the block of items it records,
\* and a failed one contributed the one error item of its URL
FailuresIsolated(log, items) ==
    \A k \in 1..Len(log) :
        /\ log[k].start = (IF k = 1 THEN 0 ELSE log[k - 1].start + log[k - 1].count)
        /\ PageFails(log[k].page) =>
              /\ ~log[k].raised
              /\ log[k].count = 1
              /\ log[k].start + 1 <= Len(items)
              /\ items[log[k].start + 1].url = log[k].url
              /\ items[log[k].start + 1].error = Some(FailureDescription(log[k].page))

\* C6: a URL whose processing fails (navigation failure, timeout, selector
\* error) contributes exactly one item, with that URL and error set to the
\* failure description; the run goes on to the later URLs of the chunk, and the
\* result document written for the chunk covers every URL of the chunk.
C6_FailingUrlIsolated ==
    /\ FailuresIsolated(ext_log, scraped_items)
    /\ (ext_pc = "scraping" => ext_u = Len(ext_log))
    /\ \A d \in 1..Len(ext_done) :
          LET done == ext_done[d]
              last == done.log[Len(done.log)]
          IN  /\ Len(done.log) = Len(done.urls)
              /\ \A k \in 1..Len(done.urls) : done.log[k].url = done.urls[k]
              /\ FailuresIsolated(done.log, done.result.scraped_items)
              /\ done.result.urls_processed = Len(done.urls)
              /\ Len(done.log) > 0 =>
                     Len(done.result.scraped_items) = last.start + last.count

\* a result document was written for a chunk whose first URL failed and whose
\* second URL was then processed
C6_Witness ==
    \E d \in 1..Len(ext_done) :
        /\ Len(ext_done[d].log) >= 2
        /\ PageFails(ext_done[d].log[1].page)
        /\ ext_done[d].result_file \in DOMAIN task_results_dir

----------------------------------------------------------------------------
(* Claims about the assembler *)

\* the output document of a completed assembler run
Output == output_dir[S_OutputName].doc

\* no numeric price field is usable and the display string holds no amount
Unresolvable(item) ==
    /\ item.price_numeric \in {None, Some(Sentinel)}
    /\ item.price_value = None
    /\ (item.price = None \/ PriceSearch(item.price[1]) = None)

\* C7: an item whose price no fallback resolves is never the cheapest_item of
\* the output, and the sentinel 999999 is never the reported min_price, even
\* when that item is the only item.  Stated over the runs whose items carry no
\* error, so that it speaks of price resolution alone (errored items are C9's).
C7_UnresolvedNeverCheapest ==
    (asm_pc = "done" /\ \A k \in 1..Len(all_items) : all_items[k].error = None) =>
        /\ Output.cheapest_item # None => ~Unresolvable(Output.cheapest_item[1])
        /\ Output.min_price # Sentinel

\* C8: when no item without an error exists (no result file, no item, or only
\* errored items), the output has cheapest_item = null and min_price = 0.
C8_NothingFoundIsNullAndZero ==
    (asm_pc = "done" /\ \A k \in 1..Len(all_items) : all_items[k].error # None) =>
        /\ Output.cheapest_item = None
        /\ Output.min_price = 0

\* C9: an item whose error is non-null is skipped whatever its description: no
\* price is resolved for it and it is never the cheapest_item.
C9_ErroredItemsSkipped ==
    asm_pc = "done" =>
        /\ \A k \in 1..Len(all_items) :
              all_items[k].error # None => asm_prices[k] = None
        /\ Output.cheapest_item # None => Output.cheapest_item[1].error = None

\* the resolution order (a) price_numeric unless absent or the sentinel,
\* (b) else price_value, (c) else the amount parsed from the display string,
\* (d) else unresolved
ResolutionOrder(item) ==
    IF item.price_numeric # None /\ item.price_numeric[1] # Sentinel
    THEN item.price_numeric[1]
    ELSE IF item.price_value # None THEN item.price_value[1]
    ELSE IF item.price # None /\ PriceSearch(item.price[1]) # None
    THEN PriceSearch(item.price[1])[1]
    ELSE Sentinel

\* C10: the price the reducer resolves for every item without an error follows
\* the order (a), (b), (c), (d).
C10_PriceResolutionOrder ==
    \A k \in 1..Len(asm_prices) :
        all_items[k].error = None =>
            asm_prices[k] = Some(ResolutionOrder(all_items[k]))

\* the positions of the items whose error is null
NonErrored(items) == {k \in 1..Len(items) : items[k].error = None}

\* the least price the reducer resolves for an item without an error
MinResolved(items) ==
    CHOOSE p \in {ResolvePrice(items[k]) : k \in NonErrored(items)} :
        \A k \in NonErrored(items) : p <= ResolvePrice(items[k])

\* the first position in scan order of an item without an error at that price
FirstAtMin(items) ==
    CHOOSE k \in NonErrored(items) :
        /\ ResolvePrice(items[k]) = MinResolved(items)
        /\ \A j \in NonErrored(items) :
              ResolvePrice(items[j]) = MinResolved(items) => k <= j

\* the orders in which the same items can be scanned
ScanOrders(items) ==
    {[k \in 1..Len(items) |-> items[l[k]]] : l \in Listings(1..Len(items))}

\* C11: the reducer returns the first item in scan order whose resolved price
\* is the minimum of the resolved prices of the items without an error; the
\* reported minimum is the same for every permutation of the items, and the
\* selected item differs between permutations only when two items tie at it.
C11_FirstMinimumWins ==
    (asm_pc = "done" /\ NonErrored(all_items) # {}) =>
        /\ Output.cheapest_item = Some(all_items[FirstAtMin(all_items)])
        /\ Output.min_price = MinResolved(all_items)
        /\ \A perm \in ScanOrders(all_items) :
              /\ find_cheapest_item(perm).min_price = Output.min_price
              /\ find_cheapest_item(perm).cheapest # Output.cheapest_item =>
                    \E i, j \in 1..Len(all_items) :
                        /\ i # j
                        /\ ResolvePrice(all_items[i]) = Output.min_price
                        /\ ResolvePrice(all_items[j]) = Output.min_price

\* the result files that deserialize to a result document
Deserialized ==
    {f \in ResultFiles :
        task_results_dir[f].ok /\ "doc" \in DOMAIN task_results_dir[f]}

RECURSIVE ItemRecords(_)
ItemRecords(files) ==
    IF files = {} THEN 0
    ELSE LET f == CHOOSE g \in files : TRUE
         IN  Len(task_results_dir[f].doc.scraped_items) + ItemRecords(files \ {f})

ItemOfDeserialized(item) ==
    \E f \in Deserialized :
        \E k \in 1..Len(task_results_dir[f].doc.scraped_items) :
            task_results_dir[f].doc.scraped_items[k] = item

\* C12: a result file that cannot be deserialized contributes no items and does
\* not abort the assembler: the run writes one output document whose
\* total_items_analyzed counts the item records (errored ones included) of the
\* files that did deserialize and whose cheapest item is one of theirs; two
\* results with items priced 19.99 and 9.99 and one errored item give 9.99 and
\* a total of 3.
C12_UndeserializableFileSkipped ==
    /\ asm_pc # "aborted"
    /\ asm_pc = "done" =>
          /\ DOMAIN output_dir = {S_OutputName}
          /\ output_dir[S_OutputName].ok
          /\ Output.total_items_analyzed = ItemRecords(Deserialized)
          /\ Output.cheapest_item # None => ItemOfDeserialized(Output.cheapest_item[1])
          /\ task_results_dir \in ScenarioDirs =>
                /\ Output.total_items_analyzed = 3
                /\ Output.min_price = 999
                /\ Output.cheapest_item # None
                /\ Output.cheapest_item[1].price_numeric = Some(999)

----------------------------------------------------------------------------
(* Claims about the stages *)

\* one invocation of the partitioner on an empty chunk directory, or one of
\* the extractor on an empty task-results directory
StageInit == Init \/ ExtInit

StageNext == Next \/ ExtNext

StageSpec == StageInit /\ [][StageNext]_vars

\* the partitioner invocation ended in a fatal error and none of the chunks it
\* had written is in the chunk directory
C13_PartitionerLeftNothing ==
    part_pc = "failed" =>
        \A k \in 1..Len(written) : written[k].name \notin DOMAIN chunks_dir

\* the extractor invocation ended in a fatal error and none of the result
\* documents it had written is in the task-results directory
C13_ExtractorLeftNothing ==
    ext_pc = "crashed" =>
        \A d \in 1..Len(ext_done) :
            ext_done[d].result_file \notin DOMAIN task_results_dir

\* C13: a stage invocation that hits a fatal error part-way through (a chunk
\* write failing after earlier groups were written, a chunk file that cannot
\* be read or a result that cannot be written after earlier chunks were
\* processed) leaves none of its own artifacts in its output directory.
C13_NoPartialArtifacts ==
    C13_PartitionerLeftNothing /\ C13_ExtractorLeftNothing

\* the states a directory handed to a stage can be in
Accesses ==
    [source : {"ok", "readonly", "missing"}, chunks : {"ok", "readonly", "missing"},
     task_results : {"ok", "readonly", "missing"}, output : {"ok", "readonly", "missing"}]

\* a stage is invoked with its two directories in any state
BootInit ==
    \/ /\ params \in StoreParams
       /\ source_dir \in SourcePool
       /\ chunks_dir = EmptyDir
       /\ PartInitRest
       /\ access \in {a \in Accesses : a.task_results = "ok" /\ a.output = "ok"}
       /\ writers = NoWriters
    \/ /\ chunks_dir \in {DirOf({<<ChunkFileName(0), ChunkFile(<<UrlEcho>>)>>}),
                          DirOf({<<ChunkFileName(0), ChunkFile(<<UrlEcho, UrlShort>>)>>,
                                 <<ChunkFileName(3), ChunkFile(<<>>)>>,
                                 <<ChunkFileName(8), OtherFile>>})}
       /\ ExtInitRest
       /\ access \in {a \in Accesses : a.source = "ok" /\ a.output = "ok"}
       /\ writers = NoWriters
    \/ /\ task_results_dir \in ScenarioDirs
       /\ AsmInitRest
       /\ access \in {a \in Accesses : a.source = "ok" /\ a.chunks = "ok"}
       /\ writers = NoWriters

BootNext ==
    \/ PartBootFail \/ Next
    \/ ExtBootFail \/ ExtNext
    \/ AsmBootFail \/ AsmNext

BootSpec == BootInit /\ [][BootNext]_vars

\* the partitioner has read no input and written no chunk
PartDidNothing == valid_urls = <<>> /\ written = <<>>

\* the extractor has read no chunk file, fetched no URL and written no result
ExtDidNothing == chunk_file = <<>> /\ ext_log = <<>> /\ ext_done = <<>>

\* the assembler has read no item and written no document
AsmDidNothing == all_items = <<>> /\ output_dir = EmptyDir

C14_Partitioner ==
    (access.source = "missing" \/ access.chunks # "ok") =>
        part_pc \in {"start", "failed", "done"} /\ PartDidNothing

C14_Extractor ==
    (access.chunks = "missing" \/ access.task_results # "ok") =>
        ext_pc \in {"idle", "start", "crashed", "done"} /\ ExtDidNothing

C14_Assembler ==
    (access.task_results = "missing" \/ access.output # "ok") =>
        asm_pc \in {"idle", "start", "crashed"} /\ AsmDidNothing

\* C14: for each of the three stages, when one of its directories is missing
\* or the directory it writes to is not writable, the stage fails at startup,
\* before it reads any input, fetches any URL or writes any artifact.
C14_DirectoriesCheckedAtStartup ==
    C14_Partitioner /\ C14_Extractor /\ C14_Assembler

----------------------------------------------------------------------------
(* Further claims about the partitioner *)

\* the URLs given to the run: the configured list, or else those of the
\* source directory
InputUrls ==
    IF UrlListConfigured THEN params.urls[1] ELSE CollectedFromSource

\* C15: when no input URL passes the allow-list, the partitioner writes no
\* chunk and completes without an error.
C15_NoValidUrlNoChunk ==
    (ValidUrls(InputUrls) = <<>> /\ ChunkSize(params) >= 1) =>
        /\ chunks_dir = EmptyDir
        /\ written = <<>>
        /\ part_pc # "failed"

----------------------------------------------------------------------------
(* Further claims about the extractor *)

\* every entry of the chunk directory named data_<index>.bin is a file that
\* holds the JSON array of a chunk
WellFormedChunks ==
    \A f \in DOMAIN chunks_dir :
        IsChunkName(f) => chunks_dir[f].kind = "file" /\ chunks_dir[f].ok

\* the <index> of a name data_<index>.bin, as written in the name
IndexDigits(f) == SubSeq(f, Len(S_data) + 1, Len(f) - Len(S_bin))

\* the browser could not be launched for a URL: no page fetch took place
LaunchFailed == \E k \in 1..Len(ext_log) : ext_log[k].raised

\* the result document of the current chunk could not be written
ResultWriteFailed ==
    /\ chunk_file # <<>>
    /\ Readable(chunk_file)
    /\ ext_u = Len(ext_urls)
    /\ ~LaunchFailed

\* one result document per chunk file, with its index and the length of its
\* payload, and none for any other index
OneResultPerChunk ==
    /\ \A f \in ChunkNames(chunks_dir) :
          LET result_file == ResultFileName(IndexDigits(f))
          IN  /\ result_file \in DOMAIN task_results_dir
              /\ task_results_dir[result_file].ok
              /\ task_results_dir[result_file].doc.chunk_number = IndexDigits(f)
              /\ task_results_dir[result_file].doc.urls_processed
                    = Len(chunks_dir[f].urls)
              /\ Cardinality({d \in 1..Len(ext_done) :
                                 ext_done[d].chunk_file = f}) = 1
    /\ \A g \in DOMAIN task_results_dir :
          \E f \in ChunkNames(chunks_dir) : g = ResultFileName(IndexDigits(f))
    /\ Len(ext_done) = Cardinality(ChunkNames(chunks_dir))

\* C16: an extractor run over a chunk directory of well-formed chunk files in
\* which every page fetch returns or fails terminates, and then every chunk
\* file data_<i>.bin has exactly one result document, carrying chunk_number i
\* and urls_processed equal to the length of the chunk's payload, and no index
\* without a chunk file has one.  A run ends otherwise only when the browser
\* cannot be launched or the result file cannot be written.
C16_OneResultPerChunkFile ==
    /\ <>(ext_pc \in {"done", "crashed"})
    /\ [](WellFormedChunks /\ ext_pc = "done" => OneResultPerChunk)
    /\ [](WellFormedChunks /\ ext_pc = "crashed" => LaunchFailed \/ ResultWriteFailed)

\* a run over two well-formed chunk files, one of whose fetches failed, has
\* ended with both result documents written
C16_Witness ==
    /\ ext_pc = "done"
    /\ WellFormedChunks
    /\ Cardinality(ChunkNames(chunks_dir)) >= 2
    /\ Len(ext_done) >= 2
    /\ \E d \in 1..Len(ext_done) :
          \E k \in 1..Len(ext_done[d].log) : PageFails(ext_done[d].log[k].page)

\* the result documents the extractor has written
WrittenResults == {ext_done[d].result : d \in 1..Len(ext_done)}

\* the two counts of a result document add up to its number of items
C17_CountsAddUp ==
    \A result \in WrittenResults :
        result.success_count + result.error_count = Len(result.scraped_items)

\* C17: every result document the extractor writes satisfies success_count +
\* error_count = len(scraped_items), error_count being the number of items
\* tagged with an error and success_count the number of items without one.
C17_CountsPartitionItems ==
    \A result \in WrittenResults :
        /\ result.success_count + result.error_count = Len(result.scraped_items)
        /\ result.error_count
              = Len(SelectSeq(result.scraped_items, LAMBDA item : item.error # None))
        /\ result.success_count
              = Len(SelectSeq(result.scraped_items, LAMBDA item : item.error = None))

----------------------------------------------------------------------------
(* Partitioner invocations on one chunk directory, side by side or one after *)
(* the other; save_chunk takes two steps, the scan of the directory and the  *)
(* write of the file                                                         *)

Writers == {1, 2}

\* an invocation at the head of its chunking loop (main.py:76-142)
Writer(p, serial, first) ==
    [pc |-> IF serial /\ ~first THEN "waiting" ELSE "scan",
     urls |-> ValidUrls(AllUrls(p)), chunk_size |-> ChunkSize(p),
     i |-> 0, index |-> 0, seen |-> {}, serial |-> serial]

\* main.py:54-67: os.listdir and next_chunk_index
WriterScan ==
    \E w \in Writers :
        /\ writers[w].pc = "scan"
        /\ writers' = [writers EXCEPT
              ![w].pc = "write",
              ![w].index = NextChunkIndex(chunks_dir),
              ![w].seen = {f \in DOMAIN chunks_dir : IsFile(chunks_dir, f)}]
        /\ UNCHANGED <<pvars, evars, avars, access>>

\* main.py:69-72 and 142-152: open(output_path, "wb") and write, then the next
\* iteration of the loop or its end
WriterWrite ==
    \E w \in Writers :
        LET me == writers[w]
            chunk_urls == Slice(me.urls, me.i, me.chunk_size)
            output_path == ChunkFileName(me.index)
        IN  /\ me.pc = "write"
            /\ chunks_dir' = PutFile(chunks_dir, output_path, ChunkFile(chunk_urls))
            /\ written' = Append(written,
                   [run |-> w, index |-> me.index, name |-> output_path,
                    urls |-> chunk_urls, before |-> me.seen])
            /\ writers' = [writers EXCEPT
                  ![w].i = me.i + me.chunk_size,
                  ![w].pc = IF me.i + me.chunk_size < Len(me.urls)
                            THEN "scan" ELSE "done"]
            /\ UNCHANGED <<params, source_dir, part_pc, valid_urls, chunk_size,
                           part_i, runs>>
            /\ UNCHANGED <<evars, avars, access>>

\* an invocation started once the one before it has exited
WriterStartAfter ==
    \E w \in Writers :
        /\ writers[w].pc = "waiting"
        /\ \A v \in Writers : v < w => writers[v].pc = "done"
        /\ writers' = [writers EXCEPT ![w].pc = "scan"]
        /\ UNCHANGED <<pvars, evars, avars, access>>

ConcInit ==
    /\ PartIdle
    /\ ExtIdle
    /\ chunks_dir \in {EmptyDir,
                       DirOf({<<ChunkFileName(2), ChunkFile(<<UrlShort>>)>>})}
    /\ access = AllOk
    /\ \E serial \in BOOLEAN :
          writers \in [Writers -> {Writer(p, serial, TRUE) : p \in StoreParams}
                                      \cup {Writer(p, serial, FALSE) : p \in StoreParams}]
    /\ \A w \in Writers : (writers[w].pc = "waiting") <=> (writers[w].serial /\ w # 1)

ConcNext == WriterScan \/ WriterWrite \/ WriterStartAfter

ConcSpec == ConcInit /\ [][ConcNext]_vars

\* write k went to the file an earlier write j had created
Overwrote(j, k) == j < k /\ written[j].name = written[k].name

\* C18: chunk index allocation is safe only under a single writer.  A chunk
\* file is written twice only when two invocations run side by side and the
\* later writer scanned the directory before the earlier write, so that both
\* computed the same index; when the invocations are serialized no file is
\* written twice.  (That the interleaving exists is C18_Witness.)
C18_OverwriteOnlyWhenInterleaved ==
    \A j, k \in 1..Len(written) :
        Overwrote(j, k) =>
            /\ written[j].run # written[k].run
            /\ ~writers[written[k].run].serial
            /\ written[j].index = written[k].index
            /\ written[j].name \notin written[k].before

\* two invocations side by side have both finished, both computed the same
\* index, and the payload of the earlier write is no longer in the directory
C18_Witness ==
    /\ \A w \in Writers : writers[w].pc = "done" /\ ~writers[w].serial
    /\ \E j, k \in 1..Len(written) :
          /\ Overwrote(j, k)
          /\ written[j].urls # written[k].urls
          /\ chunks_dir[written[j].name] = ChunkFile(written[k].urls)
          /\ \A f \in DOMAIN chunks_dir :
                chunks_dir[f] # ChunkFile(written[j].urls)

\* two serialized invocations have both finished and written their chunks
C18_SerializedWitness ==
    /\ \A w \in Writers : writers[w].pc = "done" /\ writers[w].serial
    /\ \A j, k \in 1..Len(written) : ~Overwrote(j, k)
    /\ \E j, k \in 1..Len(written) : written[j].run # written[k].run

----------------------------------------------------------------------------
(* Claims about the items the extractor keeps *)

\* the item has a title, a price display and a numeric price
FullyResolved(item) ==
    /\ item.title # Some(S_Unknown)
    /\ item.price # Some(S_Unknown)
    /\ item.price_numeric # Some(Sentinel)

\* C19: every item without an error that the extractor keeps in a chunk result
\* has a title and a price display other than "Unknown" and a price_numeric
\* other than the sentinel 999999: a product from whose price element no
\* numeric amount can be parsed is dropped.
C19_KeptItemsHaveNumericPrice ==
    \A result \in WrittenResults :
        \A k \in 1..Len(result.scraped_items) :
            result.scraped_items[k].error = None =>
                FullyResolved(result.scraped_items[k])

====
